---- MODULE Spec2Model ----
(***************************************************************************)
(* Lease engine of the ASG identifier registry: the identifiers table, the *)
(* /allocate, /liveness and /release handlers and the stale sweeper.       *)
(* Every SQL statement is one atomic step (SQLite serialises statements);  *)
(* the Go code between two statements - reading the clock with time.Now()  *)
(* before db.Exec, looking at a Scan result - is a step of its own, so     *)
(* concurrent requests and the sweeper interleave between statements.      *)
(* Timestamps are integers compared with <, standing for instants of one   *)
(* clock; the store is assumed available (no driver error).  The method    *)
(* and JSON checks of the handlers belong to the transport and are left    *)
(* out; the empty-field checks are kept.                                   *)
(***************************************************************************)
EXTENDS Integers, FiniteSets, Sequences, TLC

\* ---- bounds -------------------------------------------------------------
MaxRequests == 3      \* requests accepted in one run
MaxTime == 2          \* the clock runs over 0..MaxTime
MaxPriorRows == 2     \* rows of the table a restarted process finds
MaxSeedLen == 3       \* identifiers the configured patterns expand to

\* ---- configuration ------------------------------------------------------
StaleTimeout == 1     \* config.Server.StaleTimeout, in clock units

\* ---- values -------------------------------------------------------------
Idents == {1, 2}             \* the preloaded pool, by rowid (insertion order)
NotInPool == 3               \* an identifier string that was never preloaded
NoIdent == 0                 \* the empty identifier string / no row
Clients == {"vm-a", "vm-b"}
Goroutines == {"g1", "g2"}   \* request goroutines serving HTTP calls concurrently
RaceClients == {"vm-1", "vm-2", "vm-3"}   \* the callers of the allocation race
PreHolder == [x \in Idents |-> IF x = 1 THEN "vm-x" ELSE "vm-y"]  \* earlier lessees
NULL == "NULL"               \* SQL NULL in locked_by
NullTime == -1               \* SQL NULL in last_seen
Time == 0..MaxTime

VARIABLES
  identifiers,   \* the table: rowid -> [locked_by, last_seen]
  now,           \* the wall clock read by time.Now()
  req,           \* per request goroutine: the handler it runs and its locals
  sweeper,       \* releaseStaleIdentifiers: position in the loop and its locals
  served,        \* number of requests accepted so far
  committed      \* history: identifiers renewed since the running sweep took its threshold

vars == <<identifiers, now, req, sweeper, served, committed>>

Workers == DOMAIN req

\* ---- the table and its statements --------------------------------------
FreeRow == [locked_by |-> NULL, last_seen |-> NullTime]

Min2(a, b) == IF a = "g1" \/ b = "g1" THEN "g1" ELSE a

Min(S) == CHOOSE x \in S : \A y \in S : x <= y

\* mutant: the lookup comparing the client with the identifier column
SelectByHolderWrongColumn(tbl, client) == NoIdent

\* SELECT identifier FROM identifiers WHERE locked_by = ?   (QueryRow: first row)
SelectByHolder(tbl, client) ==
  LET rows == {x \in DOMAIN tbl : tbl[x].locked_by = client}
  IN IF rows = {} THEN NoIdent ELSE Min(rows)

Max(S) == CHOOSE x \in S : \A y \in S : x >= y

\* mutant: the subquery taking the last free row instead of the first
SelectFreeLast(tbl) ==
  LET rows == {x \in DOMAIN tbl : tbl[x].locked_by = NULL}
  IN IF rows = {} THEN NoIdent ELSE Max(rows)

\* mutant: the subquery without its WHERE locked_by IS NULL
SelectFreeAnyRow(tbl) == Min(DOMAIN tbl)

\* SELECT identifier FROM identifiers WHERE locked_by IS NULL LIMIT 1
SelectFree(tbl) ==
  LET rows == {x \in DOMAIN tbl : tbl[x].locked_by = NULL}
  IN IF rows = {} THEN NoIdent ELSE Min(rows)

\* UPDATE identifiers SET locked_by = ?, last_seen = ? WHERE identifier IN (...)
AllocateUpdate(tbl, client, ts) ==
  LET x == SelectFree(tbl)
  IN IF x = NoIdent THEN tbl
     ELSE [tbl EXCEPT ![x] = [locked_by |-> client, last_seen |-> ts]]

\* mutant: the UPDATE without its AND locked_by = ?
LivenessUpdateAnyOwner(tbl, ident, client, ts) ==
  [x \in DOMAIN tbl |->
     IF x = ident THEN [tbl[x] EXCEPT !.last_seen = ts] ELSE tbl[x]]

\* UPDATE identifiers SET last_seen = ? WHERE identifier = ? AND locked_by = ?
LivenessUpdate(tbl, ident, client, ts) ==
  [x \in DOMAIN tbl |->
     IF x = ident /\ tbl[x].locked_by = client
       THEN [tbl[x] EXCEPT !.last_seen = ts]
       ELSE tbl[x]]

\* mutant: the UPDATE clearing locked_by only
ReleaseUpdateKeepsSeen(tbl, ident, client) ==
  [x \in DOMAIN tbl |->
     IF x = ident /\ tbl[x].locked_by = client
       THEN [tbl[x] EXCEPT !.locked_by = NULL]
       ELSE tbl[x]]

\* mutant: the UPDATE without its AND locked_by = ?
ReleaseUpdateAnyOwner(tbl, ident, client) ==
  [x \in DOMAIN tbl |-> IF x = ident THEN FreeRow ELSE tbl[x]]

\* UPDATE identifiers SET locked_by = NULL, last_seen = NULL
\* WHERE identifier = ? AND locked_by = ?
ReleaseUpdate(tbl, ident, client) ==
  [x \in DOMAIN tbl |->
     IF x = ident /\ tbl[x].locked_by = client THEN FreeRow ELSE tbl[x]]

\* mutant: the timeout added instead of subtracted
ThresholdAhead(t) == t + StaleTimeout

\* time.Now().Add(-config.Server.StaleTimeout)
Threshold(t) == t - StaleTimeout

\* mutant: the comparison of the sweep turned round
StaleRowsReversed(tbl, threshold) ==
  {x \in DOMAIN tbl : /\ tbl[x].last_seen # NullTime
                      /\ tbl[x].last_seen > threshold
                      /\ tbl[x].locked_by # NULL}

\* mutant: last_seen <= ? in place of last_seen < ?
StaleRowsInclusive(tbl, threshold) ==
  {x \in DOMAIN tbl : /\ tbl[x].last_seen # NullTime
                      /\ tbl[x].last_seen <= threshold
                      /\ tbl[x].locked_by # NULL}

\* WHERE last_seen < ? AND locked_by IS NOT NULL   (NULL < ? is not true)
StaleRows(tbl, threshold) ==
  {x \in DOMAIN tbl : /\ tbl[x].last_seen # NullTime
                      /\ tbl[x].last_seen < threshold
                      /\ tbl[x].locked_by # NULL}

\* UPDATE identifiers SET locked_by = NULL, last_seen = NULL WHERE ...
StaleUpdate(tbl, threshold) ==
  [x \in DOMAIN tbl |->
     IF x \in StaleRows(tbl, threshold) THEN FreeRow ELSE tbl[x]]

\* ---- requests -----------------------------------------------------------
IdleReq == [handler |-> "none", pc |-> "idle", client_id |-> "",
            identifier |-> NoIdent, ts |-> NullTime,
            status |-> 0, out_identifier |-> NoIdent, expected_id |-> ""]

NewReq(h, pc, c, x) == [handler |-> h, pc |-> pc, client_id |-> c,
            identifier |-> x, ts |-> NullTime,
            status |-> 0, out_identifier |-> NoIdent, expected_id |-> ""]

\* the handler writes its response and returns; ts is kept only by a
\* renewal, as the time it handed to its UPDATE
Respond(r, status, ident, expected) ==
  [r EXCEPT !.pc = "done",
            !.ts = IF r.handler = "liveness" THEN r.ts ELSE NullTime,
            !.status = status,
            !.out_identifier = ident, !.expected_id = expected]

InFlight(w) == req[w].pc \notin {"idle", "done"}

\* net/http runs every request on a goroutine of its own; the goroutines are
\* interchangeable, so the second slot is taken only while the first is busy.
CanStart(w) ==
  /\ served < MaxRequests
  /\ ~InFlight(w)
  /\ \A v \in Workers : (v # w /\ ~InFlight(v)) => w = Min2(v, w)

SweeperWait == [pc |-> "wait", at |-> 0, threshold |-> 0, result |-> {}]

Init ==
  /\ identifiers = [x \in Idents |-> FreeRow]
  /\ now = 0
  /\ req = [w \in Goroutines |-> IdleReq]
  /\ sweeper = SweeperWait
  /\ committed = {}
  /\ served = 0

Tick ==
  /\ now < MaxTime
  /\ now' = now + 1
  /\ UNCHANGED <<identifiers, req, sweeper, committed, served>>

\* ---- allocateHandler ----------------------------------------------------
AllocateStart(w, c) ==
  /\ CanStart(w)
  /\ req' = [req EXCEPT ![w] =
       IF c = "" THEN Respond(NewReq("allocate", "done", c, NoIdent), 400, NoIdent, "")
       ELSE NewReq("allocate", "a_select", c, NoIdent)]
  /\ UNCHANGED <<identifiers, now, sweeper, committed>>
  /\ served' = served + 1

AllocateSelect(w) ==
  /\ req[w].pc = "a_select"
  /\ LET existing == SelectByHolder(identifiers, req[w].client_id)
     IN req' = [req EXCEPT ![w] =
          IF existing # NoIdent THEN Respond(@, 200, existing, "")
          ELSE [@ EXCEPT !.pc = "a_now"]]
  /\ UNCHANGED <<identifiers, now, sweeper, committed, served>>

AllocateNow(w) ==
  /\ req[w].pc = "a_now"
  /\ req' = [req EXCEPT ![w] = [@ EXCEPT !.pc = "a_update", !.ts = now]]
  /\ UNCHANGED <<identifiers, now, sweeper, committed, served>>

AllocateExec(w) ==
  /\ req[w].pc = "a_update"
  /\ LET newIdentifier == SelectFree(identifiers)
     IN /\ identifiers' = AllocateUpdate(identifiers, req[w].client_id, req[w].ts)
        /\ req' = [req EXCEPT ![w] =
             IF newIdentifier = NoIdent THEN Respond(@, 503, NoIdent, "")
             ELSE Respond(@, 200, newIdentifier, "")]
  /\ UNCHANGED <<now, sweeper, committed, served>>

\* ---- livenessHandler ----------------------------------------------------
LivenessStart(w, c, x) ==
  /\ CanStart(w)
  /\ req' = [req EXCEPT ![w] =
       IF c = "" \/ x = NoIdent
         THEN Respond(NewReq("liveness", "done", c, x), 400, NoIdent, "")
         ELSE NewReq("liveness", "l_select", c, x)]
  /\ UNCHANGED <<identifiers, now, sweeper, committed>>
  /\ served' = served + 1

\* mutant: sql.ErrNoRows not told apart from the other query errors
LivenessCheckedNoRowsAsError(tbl, r) ==
  IF r.identifier \notin DOMAIN tbl THEN Respond(r, 500, NoIdent, "")
  ELSE LET dbClientID == tbl[r.identifier].locked_by
       IN IF dbClientID = NULL THEN Respond(r, 500, NoIdent, "")
          ELSE IF dbClientID # r.client_id THEN Respond(r, 409, NoIdent, dbClientID)
          ELSE [r EXCEPT !.pc = "l_now"]

\* mutant: the 409 body naming the caller instead of the row's owner
LivenessCheckedYourID(tbl, r) ==
  IF r.identifier \notin DOMAIN tbl THEN Respond(r, 404, NoIdent, "")
  ELSE LET dbClientID == tbl[r.identifier].locked_by
       IN IF dbClientID = NULL THEN Respond(r, 500, NoIdent, "")
          ELSE IF dbClientID # r.client_id THEN Respond(r, 409, NoIdent, r.client_id)
          ELSE [r EXCEPT !.pc = "l_now"]

\* SELECT locked_by FROM identifiers WHERE identifier = ?  scanned into a Go
\* string: no row is sql.ErrNoRows (404); a NULL locked_by is a Scan error
\* ("converting NULL to string is unsupported"), which is neither nil nor
\* ErrNoRows (500); another owner is the 409 naming it as expected_id.
LivenessChecked(tbl, r) ==
  IF r.identifier \notin DOMAIN tbl THEN Respond(r, 404, NoIdent, "")
  ELSE LET dbClientID == tbl[r.identifier].locked_by
       IN IF dbClientID = NULL THEN Respond(r, 500, NoIdent, "")
          ELSE IF dbClientID # r.client_id THEN Respond(r, 409, NoIdent, dbClientID)
          ELSE [r EXCEPT !.pc = "l_now"]

LivenessSelect(w) ==
  /\ req[w].pc = "l_select"
  /\ req' = [req EXCEPT ![w] = LivenessChecked(identifiers, @)]
  /\ UNCHANGED <<identifiers, now, sweeper, committed, served>>

LivenessNow(w) ==
  /\ req[w].pc = "l_now"
  /\ req' = [req EXCEPT ![w] = [@ EXCEPT !.pc = "l_update", !.ts = now]]
  /\ UNCHANGED <<identifiers, now, sweeper, committed, served>>

LivenessExec(w) ==
  /\ req[w].pc = "l_update"
  /\ identifiers' = LivenessUpdate(identifiers, req[w].identifier,
                                   req[w].client_id, req[w].ts)
  /\ req' = [req EXCEPT ![w] = Respond(@, 200, NoIdent, "")]
  /\ committed' = IF /\ sweeper.pc = "exec"
                       /\ req[w].identifier \in Idents
                       /\ identifiers[req[w].identifier].locked_by = req[w].client_id
                    THEN committed \cup {req[w].identifier} ELSE committed
  /\ UNCHANGED <<now, sweeper, served>>

\* ---- releaseHandler -----------------------------------------------------
ReleaseStart(w, c, x) ==
  /\ CanStart(w)
  /\ req' = [req EXCEPT ![w] = NewReq("release", "r_update", c, x)]
  /\ UNCHANGED <<identifiers, now, sweeper, committed>>
  /\ served' = served + 1

ReleaseExec(w) ==
  /\ req[w].pc = "r_update"
  /\ identifiers' = ReleaseUpdate(identifiers, req[w].identifier, req[w].client_id)
  /\ req' = [req EXCEPT ![w] = Respond(@, 200, NoIdent, "")]
  /\ committed' = committed \ {x \in Idents : /\ identifiers[x].locked_by # NULL
                                                /\ identifiers'[x].locked_by = NULL}
  /\ UNCHANGED <<now, sweeper, served>>

\* ---- releaseStaleIdentifiers (one goroutine, one iteration per tick) -----
SweepThreshold ==
  /\ sweeper.pc = "wait"
  /\ sweeper' = [sweeper EXCEPT !.pc = "exec", !.at = now, !.threshold = Threshold(now)]
  /\ UNCHANGED <<identifiers, now, req, committed, served>>

\* db.Exec of the UPDATE; result holds the rows it affected
SweepExec ==
  /\ sweeper.pc = "exec"
  /\ identifiers' = StaleUpdate(identifiers, sweeper.threshold)
  /\ sweeper' = [sweeper EXCEPT !.pc = "log",
        !.result = {<<x, identifiers[x].locked_by>> :
                       x \in StaleRows(identifiers, sweeper.threshold)}]
  /\ committed' = {}
  /\ UNCHANGED <<now, req, served>>

\* result.RowsAffected(), the log line, and back to the ticker
rowsAffected == Cardinality(sweeper.result)

SweepLog ==
  /\ sweeper.pc = "log"
  /\ sweeper' = SweeperWait
  /\ UNCHANGED <<identifiers, now, req, committed, served>>

\* request bodies: every client with every identifier, known or not, and one
\* body for each empty field
LivenessInputs ==
  (Clients \X (Idents \cup {NotInPool})) \cup {<<"", 1>>, <<"vm-a", NoIdent>>}

Next ==
  \/ Tick
  \/ \E w \in Workers, c \in Clients \cup {""} : AllocateStart(w, c)
  \/ \E w \in Workers : AllocateSelect(w)
  \/ \E w \in Workers : AllocateNow(w)
  \/ \E w \in Workers : AllocateExec(w)
  \/ \E w \in Workers, in \in LivenessInputs : LivenessStart(w, in[1], in[2])
  \/ \E w \in Workers : LivenessSelect(w)
  \/ \E w \in Workers : LivenessNow(w)
  \/ \E w \in Workers : LivenessExec(w)
  \/ \E w \in Workers, c \in Clients, x \in Idents \cup {NotInPool} :
        ReleaseStart(w, c, x)
  \/ \E w \in Workers : ReleaseExec(w)
  \/ SweepThreshold
  \/ SweepExec
  \/ SweepLog

Spec == Init /\ [][Next]_vars

\* ---- the allocation race --------------------------------------------------
\* Some identifiers are already leased to earlier clients; more callers than
\* there are free identifiers, each a distinct client holding nothing, have
\* their /allocate in flight; nothing else runs.
InitAlloc ==
  /\ \E held \in SUBSET Idents :
       identifiers = [x \in Idents |->
          IF x \in held THEN [locked_by |-> PreHolder[x], last_seen |-> 0]
          ELSE FreeRow]
  /\ now = 0
  /\ \E callers \in SUBSET RaceClients :
       /\ Cardinality(callers) >
            Cardinality({x \in Idents : identifiers[x].locked_by = NULL})
       /\ req = [w \in RaceClients |->
            IF w \in callers THEN NewReq("allocate", "a_select", w, NoIdent)
            ELSE IdleReq]
  /\ sweeper = SweeperWait
  /\ committed = {}
  /\ served = 0

NextAlloc ==
  \/ Tick
  \/ \E w \in Workers : AllocateSelect(w)
  \/ \E w \in Workers : AllocateNow(w)
  \/ \E w \in Workers : AllocateExec(w)

SpecAlloc == InitAlloc /\ [][NextAlloc]_vars

\* ---- the sequential scenario ---------------------------------------------
\* One caller at a time issues: /allocate vm-a, /allocate vm-b, /allocate
\* vm-c, a /release by one of the two holders of its identifier, /allocate
\* vm-c.  The sweeper does not run.
ScenarioRequest(h, c, x) == [handler |-> h, client_id |-> c, identifier |-> x]

Script ==
  << {ScenarioRequest("allocate", "vm-a", NoIdent)},
     {ScenarioRequest("allocate", "vm-b", NoIdent)},
     {ScenarioRequest("allocate", "vm-c", NoIdent)},
     {ScenarioRequest("release", "vm-a", 1), ScenarioRequest("release", "vm-b", 2)},
     {ScenarioRequest("allocate", "vm-c", NoIdent)} >>

ScenarioStart(w) ==
  /\ ~InFlight(w)
  /\ served < Len(Script)
  /\ \E s \in Script[served + 1] :
       req' = [req EXCEPT ![w] =
          NewReq(s.handler, IF s.handler = "allocate" THEN "a_select" ELSE "r_update",
                 s.client_id, s.identifier)]
  /\ served' = served + 1
  /\ UNCHANGED <<identifiers, now, sweeper, committed>>

InitScenario ==
  /\ identifiers = [x \in Idents |-> FreeRow]
  /\ now = 0
  /\ req = [w \in {"g1"} |-> IdleReq]
  /\ sweeper = SweeperWait
  /\ committed = {}
  /\ served = 0

NextScenario ==
  \/ Tick
  \/ \E w \in Workers : ScenarioStart(w)
  \/ \E w \in Workers : AllocateSelect(w)
  \/ \E w \in Workers : AllocateNow(w)
  \/ \E w \in Workers : AllocateExec(w)
  \/ \E w \in Workers : ReleaseExec(w)

SpecScenario == InitScenario /\ [][NextScenario]_vars

\* ---- the sweeper kept running ----------------------------------------------
\* The requests of one connection, one at a time, with the clock advancing
\* and the ticker loop of releaseStaleIdentifiers never starved: each of its
\* steps is taken when it stays enabled.
InitLive ==
  /\ identifiers = [x \in Idents |-> FreeRow]
  /\ now = 0
  /\ req = [w \in {"g1"} |-> IdleReq]
  /\ sweeper = SweeperWait
  /\ committed = {}
  /\ served = 0

SweeperFairness ==
  /\ WF_vars(Tick)
  /\ WF_vars(SweepThreshold)
  /\ WF_vars(SweepExec)
  /\ WF_vars(SweepLog)

SpecLive == InitLive /\ [][Next]_vars /\ SweeperFairness

\* ---- preloadIdentifiers ----------------------------------------------------
\* main seeds the table before it starts the sweeper and the server. The
\* table is kept here as SQLite keeps it, a sequence of rows in rowid order
\* each carrying its identifier, so that a second row for one identifier is
\* expressible. A restarted process finds the rows of its earlier runs, some
\* of them leased; the expanded list may name an identifier more than once.
SeedValues == Idents \cup {NotInPool}

SeedRow(id) == [identifier |-> id, locked_by |-> NULL, last_seen |-> NullTime]

Present(tbl, id) == \E k \in DOMAIN tbl : tbl[k].identifier = id

\* rows the UNIQUE constraint on identifier admits together
Unique(tbl) ==
  \A j, k \in DOMAIN tbl : tbl[j].identifier = tbl[k].identifier => j = k

\* mutant: INSERT OR REPLACE, which deletes the conflicting row first
InsertOrReplace(tbl, id) ==
  LET Other(row) == row.identifier # id
  IN Append(SelectSeq(tbl, Other), SeedRow(id))

\* INSERT OR IGNORE INTO identifiers (identifier) VALUES (?)
InsertOrIgnore(tbl, id) ==
  IF Present(tbl, id) THEN tbl ELSE Append(tbl, SeedRow(id))

PriorRows ==
  {SeedRow(id) : id \in SeedValues} \cup
  {[identifier |-> id, locked_by |-> c, last_seen |-> 0] :
      id \in SeedValues, c \in Clients}

PriorTables ==
  {tbl \in UNION {[1..n -> PriorRows] : n \in 0..MaxPriorRows} : Unique(tbl)}

SeedLists == UNION {[1..n -> SeedValues] : n \in 1..MaxSeedLen}

InitSeed ==
  /\ identifiers \in PriorTables
  /\ now = 0
  /\ \E ids \in SeedLists :
       req = [main |-> [handler |-> "preload", pc |-> "p_insert",
                        expandedIdentifiers |-> ids, i |-> 1]]
  /\ sweeper = SweeperWait
  /\ committed = {}
  /\ served = 0

\* one iteration of the range loop
PreloadInsert ==
  LET m == req["main"]
  IN /\ m.pc = "p_insert"
     /\ m.i <= Len(m.expandedIdentifiers)
     /\ identifiers' = InsertOrIgnore(identifiers, m.expandedIdentifiers[m.i])
     /\ req' = [req EXCEPT !["main"].i = m.i + 1]
     /\ UNCHANGED <<now, sweeper, committed, served>>

\* the loop is over: the log line, and preloadIdentifiers returns
PreloadLog ==
  LET m == req["main"]
  IN /\ m.pc = "p_insert"
     /\ m.i > Len(m.expandedIdentifiers)
     /\ req' = [req EXCEPT !["main"].pc = "done"]
     /\ UNCHANGED <<identifiers, now, sweeper, committed, served>>

NextSeed == PreloadInsert \/ PreloadLog

SpecSeed == InitSeed /\ [][NextSeed]_vars

\* ---- the read-only handlers on a quiescent store ---------------------------
\* The table is any table the handlers above can leave behind (a holder and a
\* last_seen together or neither, no last_seen later than the clock); only
\* lookups and the clock run, one request at a time.
QueryReq(h, pc, c, x) ==
  [handler |-> h, pc |-> pc, client_id |-> c, identifier |-> x,
   ts |-> NullTime, status |-> 0,
   out_client_id |-> "", out_identifier |-> NoIdent, out_last_seen |-> NullTime,
   total |-> 0, allocated |-> 0, stale |-> 0, available |-> 0]

QueryRows(t) ==
  {FreeRow} \cup {[locked_by |-> c, last_seen |-> s] : c \in Clients, s \in 0..t}

InitQuery ==
  /\ now \in Time
  /\ identifiers \in [Idents -> QueryRows(now)]
  /\ req = [w \in {"g1"} |-> IdleReq]
  /\ sweeper = SweeperWait
  /\ committed = {}
  /\ served = 0

\* clientDetailsHandler: GET /client/{client_id}
ClientDetailsStart(w, c) ==
  /\ CanStart(w)
  /\ req' = [req EXCEPT ![w] = QueryReq("client", "c_select", c, NoIdent)]
  /\ served' = served + 1
  /\ UNCHANGED <<identifiers, now, sweeper, committed>>

\* SELECT identifier, last_seen FROM identifiers WHERE locked_by = ?
\* QueryRow keeps the first row; both columns are scanned into Go strings
ClientDetailsFound(tbl, r) ==
  LET x == SelectByHolder(tbl, r.client_id)
  IN IF x = NoIdent THEN [r EXCEPT !.pc = "done", !.status = 404]
     ELSE IF tbl[x].last_seen = NullTime
            THEN [r EXCEPT !.pc = "done", !.status = 500]
     ELSE [r EXCEPT !.pc = "done", !.status = 200,
                    !.out_client_id = r.client_id,
                    !.out_identifier = x,
                    !.out_last_seen = tbl[x].last_seen]

ClientDetailsSelect(w) ==
  /\ req[w].pc = "c_select"
  /\ req' = [req EXCEPT ![w] = ClientDetailsFound(identifiers, @)]
  /\ UNCHANGED <<identifiers, now, sweeper, committed, served>>

\* identifierDetailsHandler: GET /identifier/{identifier}
IdentifierDetailsStart(w, x) ==
  /\ CanStart(w)
  /\ req' = [req EXCEPT ![w] = QueryReq("identifier", "i_select", "", x)]
  /\ served' = served + 1
  /\ UNCHANGED <<identifiers, now, sweeper, committed>>

\* SELECT locked_by, last_seen FROM identifiers WHERE identifier = ?
\* scanned into Go strings: no row is sql.ErrNoRows (404); a NULL column is a
\* Scan error, neither nil nor ErrNoRows (500)
IdentifierDetailsFound(tbl, r) ==
  IF r.identifier \notin DOMAIN tbl THEN [r EXCEPT !.pc = "done", !.status = 404]
  ELSE IF tbl[r.identifier].locked_by = NULL \/ tbl[r.identifier].last_seen = NullTime
         THEN [r EXCEPT !.pc = "done", !.status = 500]
  ELSE [r EXCEPT !.pc = "done", !.status = 200,
                 !.out_client_id = tbl[r.identifier].locked_by,
                 !.out_identifier = r.identifier,
                 !.out_last_seen = tbl[r.identifier].last_seen]

IdentifierDetailsSelect(w) ==
  /\ req[w].pc = "i_select"
  /\ req' = [req EXCEPT ![w] = IdentifierDetailsFound(identifiers, @)]
  /\ UNCHANGED <<identifiers, now, sweeper, committed, served>>

\* statsHandler: GET /stats
StatsStart(w) ==
  /\ CanStart(w)
  /\ req' = [req EXCEPT ![w] = QueryReq("stats", "s_total", "", NoIdent)]
  /\ served' = served + 1
  /\ UNCHANGED <<identifiers, now, sweeper, committed>>

\* SELECT COUNT(*) FROM identifiers
StatsTotal(w) ==
  /\ req[w].pc = "s_total"
  /\ req' = [req EXCEPT ![w] =
       [@ EXCEPT !.pc = "s_allocated",
                 !.total = Cardinality(DOMAIN identifiers)]]
  /\ UNCHANGED <<identifiers, now, sweeper, committed, served>>

\* SELECT COUNT(*) FROM identifiers WHERE locked_by IS NOT NULL
StatsAllocated(w) ==
  /\ req[w].pc = "s_allocated"
  /\ req' = [req EXCEPT ![w] =
       [@ EXCEPT !.pc = "s_now",
                 !.allocated = Cardinality({x \in DOMAIN identifiers :
                                              identifiers[x].locked_by # NULL})]]
  /\ UNCHANGED <<identifiers, now, sweeper, committed, served>>

\* time.Now(), the argument of the third query
StatsNow(w) ==
  /\ req[w].pc = "s_now"
  /\ req' = [req EXCEPT ![w] = [@ EXCEPT !.pc = "s_stale", !.ts = now]]
  /\ UNCHANGED <<identifiers, now, sweeper, committed, served>>

\* mutant: last_seen <= ? in place of last_seen < ?
StatsStaleInclusive(tbl, threshold) ==
  Cardinality({x \in DOMAIN tbl : /\ tbl[x].last_seen # NullTime
                                  /\ tbl[x].last_seen <= threshold})

\* SELECT COUNT(*) FROM identifiers WHERE last_seen < ?   (NULL < ? is not true)
StatsStale(tbl, threshold) ==
  Cardinality({x \in DOMAIN tbl : /\ tbl[x].last_seen # NullTime
                                  /\ tbl[x].last_seen < threshold})

\* the third query and the JSON body
StatsStaleCount(w) ==
  /\ req[w].pc = "s_stale"
  /\ req' = [req EXCEPT ![w] =
       [@ EXCEPT !.pc = "done", !.status = 200,
                 !.stale = StatsStale(identifiers, Threshold(req[w].ts)),
                 !.available = req[w].total - req[w].allocated]]
  /\ UNCHANGED <<identifiers, now, sweeper, committed, served>>

NextQuery ==
  \/ Tick
  \/ \E w \in Workers, c \in Clients : ClientDetailsStart(w, c)
  \/ \E w \in Workers : ClientDetailsSelect(w)
  \/ \E w \in Workers, x \in Idents \cup {NotInPool} : IdentifierDetailsStart(w, x)
  \/ \E w \in Workers : IdentifierDetailsSelect(w)
  \/ \E w \in Workers : StatsStart(w)
  \/ \E w \in Workers : StatsTotal(w)
  \/ \E w \in Workers : StatsAllocated(w)
  \/ \E w \in Workers : StatsNow(w)
  \/ \E w \in Workers : StatsStaleCount(w)

SpecQuery == InitQuery /\ [][NextQuery]_vars

\* ---- the ticker loop with a store that can fail ----------------------------
\* main starts releaseStaleIdentifiers once. Its time.Ticker delivers on a
\* channel of capacity one and drops a tick that finds the channel full; the
\* loop body runs inline, so the next receive comes after the body. db.Exec
\* may return an error, in which case SQLite has applied none of the UPDATE.
\* The table is any table the handlers can leave behind; only the clock, the
\* ticker and the sweeper run.
TickerRunning == [handler |-> "ticker", pc |-> "running", C |-> 0]

InitSweeper ==
  /\ now \in Time
  /\ identifiers \in [Idents -> QueryRows(now)]
  /\ req = [ticker |-> TickerRunning]
  /\ sweeper = SweeperWait
  /\ committed = {}
  /\ served = 0

\* the runtime timer sends on ticker.C, or drops the tick
TickerFire ==
  /\ req' = [req EXCEPT !["ticker"].C = IF @ < 1 THEN @ + 1 ELSE @]
  /\ UNCHANGED <<identifiers, now, sweeper, committed, served>>

\* mutant: a sweep started for every tick, the previous one still running
SweepMayStartAnytime(s) == TRUE

\* for range ticker.C: the receive follows the end of the previous body
SweepMayStart(s) == s.pc = "wait"

\* the receive from ticker.C and the threshold of this iteration
SweepOnTick ==
  /\ SweepMayStart(sweeper)
  /\ req["ticker"].C > 0
  /\ req' = [req EXCEPT !["ticker"].C = @ - 1]
  /\ sweeper' = [sweeper EXCEPT !.pc = "exec", !.at = now,
                                !.threshold = Threshold(now)]
  /\ UNCHANGED <<identifiers, now, committed, served>>

\* the UPDATE as a failed statement leaves the table: not applied
StaleUpdateFailed(tbl, threshold) == tbl

\* db.Exec returns err != nil
SweepExecFailed ==
  /\ sweeper.pc = "exec"
  /\ identifiers' = StaleUpdateFailed(identifiers, sweeper.threshold)
  /\ sweeper' = [sweeper EXCEPT !.pc = "failed"]
  /\ UNCHANGED <<now, req, committed, served>>

\* mutant: the error branch leaving the loop
SweeperReturned == [SweeperWait EXCEPT !.pc = "returned"]

\* the error branch logs and falls through to the next iteration
SweeperAfterError == SweeperWait

SweepLogError ==
  /\ sweeper.pc = "failed"
  /\ sweeper' = SweeperAfterError
  /\ UNCHANGED <<identifiers, now, req, committed, served>>

NextSweeper ==
  \/ Tick
  \/ TickerFire
  \/ SweepOnTick
  \/ SweepExec
  \/ SweepExecFailed
  \/ SweepLog
  \/ SweepLogError

TickerFairness ==
  /\ WF_vars(TickerFire)
  /\ WF_vars(SweepOnTick)
  /\ WF_vars(SweepExec \/ SweepExecFailed)
  /\ WF_vars(SweepLog)
  /\ WF_vars(SweepLogError)

SpecSweeper == InitSweeper /\ [][NextSweeper]_vars /\ TickerFairness

\* ==== properties ================================================================
Done(r, h) == r.handler = h /\ r.pc = "done"

Leased(tbl) == {x \in DOMAIN tbl : tbl[x].locked_by # NULL}

\* C1: in every reachable state no two identifiers have the same holder (a
\* client holds at most one identifier), whatever the interleaving of the
\* handlers and the sweeper, duplicated /allocate calls included.
C1_OneIdentifierPerHolder ==
  \A x, y \in Idents :
     (x # y /\ identifiers[x].locked_by # NULL)
        => identifiers[x].locked_by # identifiers[y].locked_by

\* C2: N concurrent /allocate calls of N distinct clients holding nothing,
\* against K < N free identifiers and with no release or sweep meanwhile:
\* once all have returned, exactly K got 200, exactly N-K got 503, the K
\* identifiers returned are pairwise distinct, each is leased to the caller
\* it was returned to, and the earlier leases are untouched.
Callers == {w \in Workers : req[w].handler = "allocate"}

FreeAtStart == {x \in Idents : identifiers[x].locked_by # PreHolder[x]}

C2_NoDoubleClaim ==
  (\A w \in Callers : req[w].pc = "done") =>
     LET ok == {w \in Callers : req[w].status = 200}
         full == {w \in Callers : req[w].status = 503}
     IN /\ Cardinality(ok) = Cardinality(FreeAtStart)
        /\ Cardinality(full) = Cardinality(Callers) - Cardinality(FreeAtStart)
        /\ \A v, w \in ok : v # w => req[v].out_identifier # req[w].out_identifier
        /\ \A w \in ok : /\ req[w].out_identifier \in FreeAtStart
                         /\ identifiers[req[w].out_identifier].locked_by = req[w].client_id

\* C2 witness: two callers raced for the last free identifier; one holds it,
\* the other was told the pool is exhausted.
C2_Witness ==
  /\ Cardinality(Callers) = 2
  /\ \A w \in Callers : req[w].pc = "done"
  /\ Cardinality(FreeAtStart) = 1
  /\ \E v, w \in Callers : req[v].status = 200 /\ req[w].status = 503

\* C3: in every reachable state, for every identifier of the pool, locked_by
\* is NULL exactly when last_seen is NULL.
C3_HolderIffTimestamp ==
  \A x \in Idents :
     (identifiers[x].locked_by = NULL) <=> (identifiers[x].last_seen = NullTime)

\* C3 witness: a renewal ran its UPDATE on an identifier that had become free
\* in the meantime (it answered 200), next to an identifier that is leased.
C3_Witness ==
  \E w \in Workers :
     /\ Done(req[w], "liveness") /\ req[w].status = 200
     /\ identifiers[req[w].identifier] = FreeRow
     /\ Leased(identifiers) # {}

\* C4: whenever /liveness answers 200, its UPDATE left the identifier held by
\* the caller with last_seen set to the time the call read: it never answers
\* 200 for a write that took no effect.
C4_RenewOkMeansWritten ==
  [][\A w \in Workers :
        (req[w].pc = "l_update" /\ Done(req'[w], "liveness") /\ req'[w].status = 200)
          => identifiers'[req[w].identifier] =
               [locked_by |-> req[w].client_id, last_seen |-> req[w].ts]]_vars

\* C5: /liveness for an identifier of the pool that is free answers 409 with
\* an empty actual holder, not 404 nor any other failure, and leaves the
\* table unchanged.
C5_RenewFreeIsConflict ==
  [][\A w \in Workers :
        (/\ req[w].pc = "l_select"
         /\ req'[w] # req[w]
         /\ req[w].identifier \in Idents
         /\ identifiers[req[w].identifier].locked_by = NULL)
          => /\ Done(req'[w], "liveness")
             /\ req'[w].status = 409
             /\ req'[w].expected_id = ""
             /\ identifiers' = identifiers]_vars

\* C6: /liveness of client A for an identifier that is held by another client
\* B answers 409 naming B as the actual holder, and leaves the identifier's
\* locked_by and last_seen (the whole table) unchanged.
C6_ConflictNamesHolder ==
  [][\A w \in Workers :
        (/\ req[w].pc = "l_select"
         /\ req'[w] # req[w]
         /\ req[w].identifier \in Idents
         /\ identifiers[req[w].identifier].locked_by \notin {NULL, req[w].client_id})
          => /\ Done(req'[w], "liveness")
             /\ req'[w].status = 409
             /\ req'[w].expected_id = identifiers[req[w].identifier].locked_by
             /\ identifiers' = identifiers]_vars

\* C6 witness: the sweep has just reclaimed X from A (it has not logged yet),
\* B has allocated X since, and A's /liveness for X came back 409 naming B.
C6_Witness ==
  \E w \in Workers :
     /\ Done(req[w], "liveness") /\ req[w].status = 409
     /\ req[w].identifier \in Idents
     /\ sweeper.pc = "log"
     /\ <<req[w].identifier, req[w].client_id>> \in sweeper.result
     /\ identifiers[req[w].identifier].locked_by \notin {NULL, req[w].client_id}
     /\ req[w].expected_id = identifiers[req[w].identifier].locked_by

\* C7: /release of client A for an identifier held by another client B
\* changes nothing (X stays with B, same last_seen) and still answers 200.
C7_ReleaseByOtherIsNoOp ==
  [][\A w \in Workers :
        (/\ req[w].pc = "r_update"
         /\ req'[w] # req[w]
         /\ req[w].identifier \in Idents
         /\ identifiers[req[w].identifier].locked_by \notin {NULL, req[w].client_id})
          => /\ identifiers' = identifiers
             /\ Done(req'[w], "release")
             /\ req'[w].status = 200]_vars

\* C7 witness: the sweep has just reclaimed X from A, B has allocated X since,
\* and A's /release for X has returned 200 with X still leased to B.
C7_Witness ==
  \E w \in Workers :
     /\ Done(req[w], "release") /\ req[w].status = 200
     /\ req[w].identifier \in Idents
     /\ sweeper.pc = "log"
     /\ <<req[w].identifier, req[w].client_id>> \in sweeper.result
     /\ identifiers[req[w].identifier].locked_by \notin {NULL, req[w].client_id}
     /\ identifiers[req[w].identifier].last_seen # NullTime

\* C8: a sweep that read the clock at `at` uses threshold = at - StaleTimeout
\* and frees exactly the leased identifiers whose last_seen is strictly older
\* than it; a lease renewed at the threshold or later, and every free
\* identifier, is left as it was; the rows affected are the rows freed.
C8_SweepFreesExactlyStale ==
  [][(sweeper.pc = "exec" /\ sweeper'.pc = "log") =>
        /\ sweeper.threshold = sweeper.at - StaleTimeout
        /\ \A x \in Idents :
              IF identifiers[x].locked_by # NULL
                 /\ identifiers[x].last_seen < sweeper.threshold
                THEN identifiers'[x] = FreeRow
                ELSE identifiers'[x] = identifiers[x]
        /\ Cardinality(sweeper'.result) =
              Cardinality(Leased(identifiers) \ Leased(identifiers'))]_vars

\* C8 witness: a sweep freed one lease and left alone another one whose
\* last_seen equals the threshold.
C8_Witness ==
  /\ sweeper.pc = "log"
  /\ rowsAffected = 1
  /\ \E y \in Idents : /\ identifiers[y].locked_by # NULL
                        /\ identifiers[y].last_seen = sweeper.threshold

\* C9: a renewal of X answered 200 at time T and its write is still what the
\* table holds for X (no later renewal): a sweep that read the clock before
\* T + StaleTimeout leaves X alone, one that read it after T + StaleTimeout
\* frees X.
C9_RenewExtendsDeadline ==
  [][(sweeper.pc = "exec" /\ sweeper'.pc = "log") =>
        \A w \in Workers :
           (/\ Done(req[w], "liveness") /\ req[w].status = 200
            /\ req[w].identifier \in Idents
            /\ identifiers[req[w].identifier] =
                  [locked_by |-> req[w].client_id, last_seen |-> req[w].ts])
             => LET x == req[w].identifier
                    T == req[w].ts
                IN /\ sweeper.at < T + StaleTimeout => identifiers'[x] = identifiers[x]
                   /\ sweeper.at > T + StaleTimeout => identifiers'[x] = FreeRow]_vars

\* C9 witness: a renewal answered 200 at T, and a sweep that read the clock
\* after T + StaleTimeout has reclaimed the identifier from the renewer.
C9_Witness ==
  \E w \in Workers :
     /\ Done(req[w], "liveness") /\ req[w].status = 200
     /\ sweeper.pc = "log"
     /\ sweeper.at > req[w].ts + StaleTimeout
     /\ <<req[w].identifier, req[w].client_id>> \in sweeper.result

\* C10: an identifier whose renewal by its holder committed after the sweep
\* took its threshold and before the sweep's UPDATE ran is not reclaimed by
\* that sweep.
C10_CommittedRenewalSurvivesSweep ==
  [][(sweeper.pc = "exec" /\ sweeper'.pc = "log") =>
        \A x \in committed : identifiers'[x] = identifiers[x]]_vars

\* the identifiers a client holds
HeldBy(tbl, c) == {x \in DOMAIN tbl : tbl[x].locked_by = c}

\* C11: an /allocate of a client that already holds an identifier returns an
\* identifier that client holds (X itself when X is the only one) and writes
\* nothing: the table, hence the free count, X's locked_by and last_seen and
\* every other row, is what it was, and the call has returned.
C11_AllocateIsIdempotent ==
  [][\A w \in Workers :
        (/\ req[w].pc = "a_select"
         /\ req'[w] # req[w]
         /\ HeldBy(identifiers, req[w].client_id) # {})
          => /\ Done(req'[w], "allocate")
             /\ req'[w].status = 200
             /\ req'[w].out_identifier \in HeldBy(identifiers, req[w].client_id)
             /\ \A x \in Idents :
                  HeldBy(identifiers, req[w].client_id) = {x}
                     => req'[w].out_identifier = x
             /\ identifiers' = identifiers]_vars

\* C11 witness: a second /allocate of a client has returned the one identifier
\* the client holds, the other identifier being still free.
C11_Witness ==
  \E w \in Workers :
     /\ Done(req[w], "allocate") /\ req[w].status = 200
     /\ served >= 2
     /\ HeldBy(identifiers, req[w].client_id) = {req[w].out_identifier}
     /\ \E v \in Workers \ {w} : req[v].pc = "idle"
     /\ \E y \in Idents : identifiers[y] = FreeRow

\* C12: an /allocate that reaches its claiming UPDATE when no identifier is
\* free answers 503 and leaves every row's locked_by and last_seen unchanged.
C12_PoolExhausted ==
  [][\A w \in Workers :
        (/\ req[w].pc = "a_update"
         /\ req'[w] # req[w]
         /\ \A x \in Idents : identifiers[x].locked_by # NULL)
          => /\ Done(req'[w], "allocate")
             /\ req'[w].status = 503
             /\ req'[w].out_identifier = NoIdent
             /\ identifiers' = identifiers]_vars

\* C12 witness: a caller holding nothing was answered 503 while every
\* identifier is leased to an earlier client.
C12_Witness ==
  \E w \in Workers :
     /\ Done(req[w], "allocate") /\ req[w].status = 503
     /\ HeldBy(identifiers, req[w].client_id) = {}
     /\ \A x \in Idents : identifiers[x].locked_by = PreHolder[x]

\* C13: the pool seeded in order with {id-1, id-2}, calls made one after the
\* other: /allocate vm-a returns id-1, /allocate vm-b returns id-2, /allocate
\* vm-c answers 503, the /release of a holder answers 200 and frees its
\* identifier, and the next /allocate vm-c returns the identifier that was
\* released (id-1 when vm-a released), it being the only free one.
C13_Scenario ==
  \A w \in Workers :
     req[w].pc = "done" =>
        /\ served = 1 => req[w].status = 200 /\ req[w].out_identifier = 1
        /\ served = 2 => req[w].status = 200 /\ req[w].out_identifier = 2
        /\ served = 3 => /\ req[w].status = 503
                         /\ identifiers[1].locked_by = "vm-a"
                         /\ identifiers[2].locked_by = "vm-b"
        /\ served = 4 => /\ req[w].status = 200
                         /\ identifiers[req[w].identifier] = FreeRow
                         /\ Cardinality(Leased(identifiers)) = 1
        /\ served = 5 => /\ req[w].status = 200
                         /\ req[w].out_identifier =
                              IF identifiers[2].locked_by = "vm-b" THEN 1 ELSE 2
                         /\ identifiers[req[w].out_identifier].locked_by = "vm-c"
                         /\ Cardinality(Leased(identifiers)) = 2

\* C13 witness: the scenario has run to its end with vm-a as the releaser:
\* vm-c was handed id-1 and vm-b still holds id-2.
C13_Witness ==
  \E w \in Workers :
     /\ served = 5 /\ Done(req[w], "allocate")
     /\ req[w].client_id = "vm-c" /\ req[w].out_identifier = 1
     /\ identifiers[1].locked_by = "vm-c"
     /\ identifiers[2].locked_by = "vm-b"

\* C14: a /liveness naming a value that is no identifier of the pool is
\* answered 404 by its SELECT, the request ends there, and the step leaves
\* every row's locked_by and last_seen as they were.
C14_RenewUnknownIsNotFound ==
  [][\A w \in Workers :
        (/\ req[w].pc = "l_select"
         /\ req[w].identifier \notin Idents
         /\ req'[w] # req[w])
          => /\ Done(req'[w], "liveness")
             /\ req'[w].status = 404
             /\ identifiers' = identifiers]_vars

\* C14 witness: a /liveness of a client that holds an identifier, naming a
\* value outside the pool, has been answered 404.
C14_Witness ==
  \E w \in Workers :
     /\ Done(req[w], "liveness") /\ req[w].status = 404
     /\ req[w].identifier = NotInPool
     /\ HeldBy(identifiers, req[w].client_id) # {}

\* C15: the UPDATE of a /release is always answered 200; when the caller
\* holds the named identifier the step clears that row's locked_by and
\* last_seen and changes no other row; in every other case (the identifier
\* already released, free, outside the pool, or held by another client) the
\* step leaves every row as it was.
C15_ReleaseIsIdempotent ==
  [][\A w \in Workers :
        (req[w].pc = "r_update" /\ req'[w] # req[w])
          => /\ Done(req'[w], "release")
             /\ req'[w].status = 200
             /\ \A y \in Idents :
                   identifiers'[y] =
                      IF y = req[w].identifier
                         /\ identifiers[y].locked_by = req[w].client_id
                        THEN FreeRow ELSE identifiers[y]
             /\ (req[w].identifier \notin HeldBy(identifiers, req[w].client_id)
                   => identifiers' = identifiers)]_vars

\* C15 witness: two identical /release calls of one client on one identifier
\* of the pool have both been answered 200 and the identifier is free.
C15_Witness ==
  /\ Done(req["g1"], "release") /\ Done(req["g2"], "release")
  /\ req["g1"].status = 200 /\ req["g2"].status = 200
  /\ req["g1"].client_id = req["g2"].client_id
  /\ req["g1"].identifier = req["g2"].identifier
  /\ req["g1"].identifier \in Idents
  /\ identifiers[req["g1"].identifier] = FreeRow

\* C16: every step that changes a row is one of the transitions of the
\* per-identifier state machine: free to leased to h by the UPDATE of an
\* /allocate of h; leased to h to leased to h with a newer last_seen by the
\* UPDATE of a /liveness of h on that identifier; leased to h to free by the
\* UPDATE of a /release of h on that identifier or by the sweep's UPDATE
\* finding last_seen older than its threshold. No step takes a row from one
\* holder to another.
C16_StateMachine ==
  [][\A x \in Idents :
        identifiers'[x] # identifiers[x] =>
           LET old == identifiers[x]
               new == identifiers'[x]
           IN \/ /\ old = FreeRow
                 /\ new.locked_by # NULL
                 /\ \E w \in Workers :
                       /\ req[w].pc = "a_update" /\ req'[w] # req[w]
                       /\ req[w].client_id = new.locked_by
              \/ /\ old.locked_by # NULL
                 /\ new.locked_by = old.locked_by
                 /\ new.last_seen > old.last_seen
                 /\ \E w \in Workers :
                       /\ req[w].pc = "l_update" /\ req'[w] # req[w]
                       /\ req[w].client_id = old.locked_by
                       /\ req[w].identifier = x
              \/ /\ old.locked_by # NULL
                 /\ new = FreeRow
                 /\ \/ \E w \in Workers :
                          /\ req[w].pc = "r_update" /\ req'[w] # req[w]
                          /\ req[w].client_id = old.locked_by
                          /\ req[w].identifier = x
                    \/ /\ sweeper.pc = "exec" /\ sweeper'.pc = "log"
                       /\ old.last_seen < sweeper.threshold]_vars

\* C17: with the clock advancing and the sweeper taking its steps, an
\* identifier leased to h with last_seen = t, old enough for a later sweep
\* to see it as stale before the clock's bound, does not stay as it is: it
\* becomes free (and so selectable by the next /allocate), unless a renewal
\* of h gives it another last_seen first.
C17_StaleLeaseIsReclaimed ==
  \A x \in Idents, h \in Clients, t \in Time :
     (/\ identifiers[x] = [locked_by |-> h, last_seen |-> t]
      /\ t + StaleTimeout < MaxTime)
       ~> \/ identifiers[x] = FreeRow
          \/ /\ identifiers[x].locked_by = h
             /\ identifiers[x].last_seen # t

\* C17 witness: an identifier the sweep has reclaimed from its holder has been
\* handed to another client by a later /allocate.
C17_Witness ==
  \E x \in Idents, w \in Workers :
     /\ sweeper.pc = "log"
     /\ \E h \in Clients : /\ <<x, h>> \in sweeper.result
                           /\ h # req[w].client_id
     /\ Done(req[w], "allocate") /\ req[w].out_identifier = x
     /\ identifiers[x].locked_by = req[w].client_id

\* C18: each INSERT OR IGNORE of the seeding leaves every row that exists
\* with its identifier, locked_by and last_seen; when the identifier is
\* already in the table (from an earlier run, or earlier in the same list)
\* the table is what it was; otherwise exactly one row is added, free, for
\* that identifier; and no identifier ever has two rows.
C18_SeedIsIdempotent ==
  [][(req["main"].pc = "p_insert" /\ req'["main"].i # req["main"].i) =>
        LET id == req["main"].expandedIdentifiers[req["main"].i]
            n  == Len(identifiers)
        IN /\ \A k \in 1..n : /\ k \in DOMAIN identifiers'
                              /\ identifiers'[k] = identifiers[k]
           /\ (\E k \in 1..n : identifiers[k].identifier = id)
                 => identifiers' = identifiers
           /\ (\A k \in 1..n : identifiers[k].identifier # id)
                 => /\ Len(identifiers') = n + 1
                    /\ identifiers'[n + 1].identifier = id
                    /\ identifiers'[n + 1].locked_by = NULL
                    /\ identifiers'[n + 1].last_seen = NullTime
           /\ \A j, k \in DOMAIN identifiers' :
                 identifiers'[j].identifier = identifiers'[k].identifier
                    => j = k]_vars

\* C18 witness: a seeding has ended whose list names one identifier twice,
\* over a table where an identifier of the list is leased and another one of
\* the list is free.
C18_Witness ==
  LET m == req["main"]
  IN /\ m.handler = "preload" /\ m.pc = "done"
     /\ \E j, k \in DOMAIN m.expandedIdentifiers :
           j # k /\ m.expandedIdentifiers[j] = m.expandedIdentifiers[k]
     /\ \E j, k \in DOMAIN identifiers :
           /\ identifiers[j].locked_by # NULL
           /\ identifiers[k].locked_by = NULL
           /\ \E a, b \in DOMAIN m.expandedIdentifiers :
                 /\ m.expandedIdentifiers[a] = identifiers[j].identifier
                 /\ m.expandedIdentifiers[b] = identifiers[k].identifier
     /\ \A a \in DOMAIN m.expandedIdentifiers :
           Present(identifiers, m.expandedIdentifiers[a])

\* C19: a finished GET /identifier/{identifier} is an error exactly when the
\* identifier is not in the pool, and otherwise carries the row's holder and
\* last_seen; a finished GET /client/{client_id} is an error exactly when the
\* client holds nothing.
C19_LookupErrors ==
  \A w \in Workers :
     /\ Done(req[w], "identifier") =>
          /\ req[w].status # 200 <=> req[w].identifier \notin Idents
          /\ req[w].status = 200 =>
               /\ req[w].out_client_id = identifiers[req[w].identifier].locked_by
               /\ req[w].out_last_seen = identifiers[req[w].identifier].last_seen
     /\ Done(req[w], "client") =>
          (req[w].status # 200 <=> HeldBy(identifiers, req[w].client_id) = {})

\* C20: the counts of a finished GET /stats on a table nothing writes to:
\* total is allocated plus free, stale is at most allocated and is the number
\* of rows the sweep's UPDATE would free with the threshold taken at the same
\* clock reading; no step of the handler writes a row.
C20_StatsCounts ==
  [][\A w \in Workers :
        (req[w].handler = "stats" /\ req'[w] # req[w]) =>
           /\ identifiers' = identifiers
           /\ req'[w].pc = "done" =>
                LET r == req'[w]
                    free == {x \in Idents : identifiers[x].locked_by = NULL}
                IN /\ r.status = 200
                   /\ r.allocated = Cardinality(Leased(identifiers))
                   /\ r.available = Cardinality(free)
                   /\ r.total = r.allocated + r.available
                   /\ r.stale <= r.allocated
                   /\ r.stale =
                        Cardinality({x \in Idents :
                           StaleUpdate(identifiers, Threshold(r.ts))[x]
                              # identifiers[x]})]_vars

\* C20 witness: a /stats has answered on a table with one stale lease, one
\* lease still fresh, and nothing free.
C20_Witness ==
  \E w \in Workers :
     /\ Done(req[w], "stats")
     /\ req[w].total = 2 /\ req[w].allocated = 2
     /\ req[w].available = 0 /\ req[w].stale = 1

\* C23: while a row stays leased to one holder its last_seen never goes
\* down, whichever statement writes it and however the renewals of that
\* holder overlap.
C23_LastSeenNeverDecreases ==
  [][\A x \in Idents :
        (/\ identifiers[x].locked_by # NULL
         /\ identifiers'[x].locked_by = identifiers[x].locked_by)
          => identifiers'[x].last_seen >= identifiers[x].last_seen]_vars

\* C21: a sweep whose UPDATE fails leaves every row's locked_by and
\* last_seen as they were, in the failing step and in the error branch after
\* it; the error branch takes the sweeper back to its wait for the ticker;
\* and after a failure the sweeper reaches the UPDATE of a next sweep.
C21_SweepFailureIsRetried ==
  /\ [][(sweeper.pc = "exec" /\ sweeper'.pc = "failed")
           => identifiers' = identifiers]_vars
  /\ [][(sweeper.pc = "failed" /\ sweeper' # sweeper)
           => /\ sweeper'.pc = "wait"
              /\ identifiers' = identifiers]_vars
  /\ (sweeper.pc = "failed" ~> sweeper.pc = "exec")

\* C21 witness: the UPDATE of a sweep has failed on a table holding a lease
\* that sweep would have reclaimed.
C21_Witness ==
  /\ sweeper.pc = "failed"
  /\ StaleRows(identifiers, sweeper.threshold) # {}

\* C22: a sweep begins only from the sweeper's wait, taking the one tick the
\* channel holds; while a sweep is in progress no step begins another: the
\* sweep keeps the clock reading and threshold it started with until it is
\* back at its wait, however many ticks fire meanwhile.
C22_SweepsAreSerialized ==
  /\ [][(sweeper'.pc = "exec" /\ sweeper' # sweeper)
           => /\ sweeper.pc = "wait"
              /\ req["ticker"].C = 1 /\ req'["ticker"].C = 0]_vars
  /\ [][sweeper.pc # "wait"
           => \/ sweeper' = SweeperWait
              \/ /\ sweeper'.pc # "wait"
                 /\ sweeper'.at = sweeper.at
                 /\ sweeper'.threshold = sweeper.threshold]_vars

\* C22 witness: a sweep that started at an earlier clock reading is still
\* before its UPDATE while the next tick is already waiting in the channel.
C22_Witness ==
  /\ sweeper.pc = "exec"
  /\ now > sweeper.at
  /\ req["ticker"].C = 1
====
